---- MODULE Spec2Model ----
(***************************************************************************)
(* midi2keystroke: a MIDI input callback that looks incoming messages up   *)
(* in a rule table loaded from a YAML file and injects key presses and     *)
(* releases through the sendKey module.                                    *)
(*                                                                         *)
(* Encoding of Python values:                                              *)
(*   None / an int n        ->  <<>> / <<n>>        (an optional)          *)
(*   a str                  ->  the sequence of its characters             *)
(*   KeyStroke.data         ->  [kind, ints]: kind "none" (None),          *)
(*                              "int" (ints = <<n>>), "list" (ints = the   *)
(*                              list of ints)                              *)
(*   a raised exception     ->  its class name in a field exc ("" = none)  *)
(***************************************************************************)
EXTENDS Integers, Sequences, FiniteSets, TLC

(* ---------------- rtmidi.midiconstants, KEY_* ---------------- *)
NOTE_OFF == 128
NOTE_ON == 144
POLY_PRESSURE == 160
CONTROLLER_CHANGE == 176
PROGRAM_CHANGE == 192
CHANNEL_PRESSURE == 208
PITCH_BEND == 224

KEY_UP == 1
KEY_DOWN == 2
\* KEY_UP | KEY_DOWN: the two values have no bit in common
KEY_DOWN_UP == KEY_UP + KEY_DOWN

\* functools.lru_cache used without arguments keeps 128 entries
CacheMaxSize == 128

(* ---------------- bounds of the model ---------------- *)
\* rules in the configuration file
MaxRules == 2
\* MIDI messages delivered to the callback in one run
MaxEvents == 2

(* ---------------- Python values ---------------- *)
None == <<>>
Some(x) == <<x>>

NoData == [kind |-> "none", ints |-> <<>>]
IntData(n) == [kind |-> "int", ints |-> <<n>>]
ListData(l) == [kind |-> "list", ints |-> l]

Whitespace == {" "}
DigitVal == ("0" :> 0) @@ ("1" :> 1) @@ ("2" :> 2) @@ ("3" :> 3) @@ ("4" :> 4) @@
            ("5" :> 5) @@ ("6" :> 6) @@ ("7" :> 7) @@ ("8" :> 8) @@ ("9" :> 9)
UpperToLower == ("A" :> "a") @@ ("B" :> "b") @@ ("C" :> "c") @@ ("D" :> "d") @@
                ("E" :> "e") @@ ("F" :> "f") @@ ("G" :> "g") @@ ("H" :> "h") @@
                ("I" :> "i") @@ ("J" :> "j") @@ ("K" :> "k") @@ ("L" :> "l") @@
                ("M" :> "m") @@ ("N" :> "n") @@ ("O" :> "o") @@ ("P" :> "p") @@
                ("Q" :> "q") @@ ("R" :> "r") @@ ("S" :> "s") @@ ("T" :> "t") @@
                ("U" :> "u") @@ ("V" :> "v") @@ ("W" :> "w") @@ ("X" :> "x") @@
                ("Y" :> "y") @@ ("Z" :> "z")

\* str.split(): the maximal runs of non-whitespace characters, in order
RECURSIVE SplitFrom(_, _, _)
SplitFrom(s, i, word) ==
    IF i > Len(s)
    THEN IF word = <<>> THEN <<>> ELSE <<word>>
    ELSE IF s[i] \in Whitespace
         THEN (IF word = <<>> THEN <<>> ELSE <<word>>) \o SplitFrom(s, i + 1, <<>>)
         ELSE SplitFrom(s, i + 1, Append(word, s[i]))
split(s) == SplitFrom(s, 1, <<>>)

\* str.strip(): without the leading and trailing whitespace
RECURSIVE lstrip(_)
lstrip(s) == IF s # <<>> /\ Head(s) \in Whitespace THEN lstrip(Tail(s)) ELSE s
RECURSIVE rstrip(_)
rstrip(s) == IF s # <<>> /\ s[Len(s)] \in Whitespace
             THEN rstrip(SubSeq(s, 1, Len(s) - 1)) ELSE s
strip(s) == rstrip(lstrip(s))

\* str.lower()
lower(s) == [i \in 1..Len(s) |->
               IF s[i] \in DOMAIN UpperToLower THEN UpperToLower[s[i]] ELSE s[i]]

\* int(str) of a decimal literal without sign: <<n>>, or <<>> for ValueError
RECURSIVE DecimalValue(_, _)
DecimalValue(s, acc) ==
    IF s = <<>> THEN acc ELSE DecimalValue(Tail(s), 10 * acc + DigitVal[Head(s)])
int(s) ==
    LET t == strip(s)
    IN  IF t # <<>> /\ \A i \in 1..Len(t) : t[i] \in DOMAIN DigitVal
        THEN Some(DecimalValue(t, 0))
        ELSE None

(* ---------------- STATUS_MAP ---------------- *)
STATUS_MAP ==
    (<<"n","o","t","e","o","n">> :> NOTE_ON) @@
    (<<"n","o","t","e","o","f","f">> :> NOTE_OFF) @@
    (<<"p","r","o","g","r","a","m","c","h","a","n","g","e">> :> PROGRAM_CHANGE) @@
    (<<"c","o","n","t","r","o","l","l","e","r","c","h","a","n","g","e">> :> CONTROLLER_CHANGE) @@
    (<<"p","i","t","c","h","b","e","n","d">> :> PITCH_BEND) @@
    (<<"p","o","l","y","p","r","e","s","s","u","r","e">> :> POLY_PRESSURE) @@
    (<<"c","h","a","n","n","e","l","p","r","e","s","s","u","r","e">> :> CHANNEL_PRESSURE)

(* ---------------- configuration values (what yaml.load returns) ---------------- *)
\* a YAML scalar of a rule's data field: absent, an integer, a string, or
\* a value of another type (a YAML list, a float)
YNone == [kind |-> "none", n |-> 0, s |-> <<>>]
YInt(n) == [kind |-> "int", n |-> n, s |-> <<>>]
YStr(s) == [kind |-> "str", n |-> 0, s |-> s]
YOther == [kind |-> "other", n |-> 0, s |-> <<>>]

\* a rule record of the configuration file (a dict that has the key 'keys';
\* name and description are stored and never read again, they are left out)
CmdSpec(status, channel, data, keys) ==
    [status |-> status, channel |-> channel, data |-> data, keys |-> keys]

(* ---------------- class KeyStroke ---------------- *)
\* KeyStroke.__init__: the object, or the exception the constructor raises
KeyStroke(cmdspec) ==
    LET base == [status |-> cmdspec.status, channel |-> cmdspec.channel,
                 keys |-> split(cmdspec.keys)]
        d == cmdspec.data
    IN  IF d.kind = "none"
        THEN [exc |-> "", obj |-> base @@ [data |-> NoData]]
        ELSE IF d.kind = "int"
        THEN [exc |-> "", obj |-> base @@ [data |-> IntData(d.n)]]
        ELSE IF d.kind = "str"
        THEN LET words == split(d.s)
             IN  IF \E i \in 1..Len(words) : int(words[i]) = None
                 THEN [exc |-> "ValueError", obj |-> base @@ [data |-> NoData]]
                 ELSE [exc |-> "",
                       obj |-> base @@
                               [data |-> ListData([i \in 1..Len(words) |->
                                                     int(words[i])[1]])]]
        ELSE [exc |-> "TypeError", obj |-> base @@ [data |-> NoData]]

(* ---------------- MidiInputHandler.load_config ---------------- *)
\* dict.get(key, []) on self.keystrokes
Get(keystrokes_, key) ==
    IF key \in DOMAIN keystrokes_ THEN keystrokes_[key] ELSE <<>>

\* self.keystrokes.setdefault(status, []).append(cmd)
SetDefaultAppend(keystrokes_, key, cmd_) ==
    [k \in DOMAIN keystrokes_ \cup {key} |->
        IF k = key THEN Append(Get(keystrokes_, key), cmd_) ELSE keystrokes_[k]]

\* STATUS_MAP.get(cmd.status.strip().lower()): <<code>>, or None
StatusOf(cmd_) ==
    LET name == lower(strip(cmd_.status))
    IN  IF name \in DOMAIN STATUS_MAP THEN Some(STATUS_MAP[name]) ELSE None

\* the loop over the rule records, from the i-th on
RECURSIVE LoadFrom(_, _, _)
LoadFrom(data, i, keystrokes_) ==
    IF i > Len(data)
    THEN [exc |-> "", keystrokes |-> keystrokes_]
    ELSE LET made == KeyStroke(data[i])
         IN  IF made.exc # ""
             THEN [exc |-> "IOError", keystrokes |-> keystrokes_]
             ELSE \* an unknown status is only logged: the key stays None
                  LoadFrom(data, i + 1,
                           SetDefaultAppend(keystrokes_, StatusOf(made.obj), made.obj))

\* load_config: the rule table, or the IOError it raises
load_config(file) ==
    IF ~file.exists
    THEN [exc |-> "IOError", keystrokes |-> <<>>]
    ELSE LoadFrom(file.data, 1, <<>>)

(* ---------------- MidiInputHandler.__call__: decoding ---------------- *)
\* (mutation of Decode: the channel is left zero-based)
Decode_ChannelZeroBased(event) ==
    [status  |-> IF event[1] < 240 THEN event[1] - (event[1] % 16) ELSE event[1],
     channel |-> IF event[1] < 240 THEN Some(event[1] % 16) ELSE None,
     data1   |-> IF Len(event) >= 2 THEN Some(event[2]) ELSE None,
     data2   |-> IF Len(event) >= 3 THEN Some(event[3]) ELSE None]

\* the decoded message: status, and channel, data1, data2 as optionals
Decode(event) ==
    [status  |-> IF event[1] < 240 THEN event[1] - (event[1] % 16) ELSE event[1],
     channel |-> IF event[1] < 240 THEN Some((event[1] % 16) + 1) ELSE None,
     data1   |-> IF Len(event) >= 2 THEN Some(event[2]) ELSE None,
     data2   |-> IF Len(event) >= 3 THEN Some(event[3]) ELSE None]

(* ---------------- MidiInputHandler.lookup_command ---------------- *)
\* (mutation of Normalize: the midpoint 64 falls into the low bucket)
Normalize_MidpointLow(status, data2) ==
    IF status = NOTE_OFF
    THEN [exc |-> "", status |-> NOTE_ON, data2 |-> data2]
    ELSE IF status = CONTROLLER_CHANGE
    THEN IF data2 = None
         THEN [exc |-> "TypeError", status |-> status, data2 |-> data2]
         ELSE IF data2[1] <= 64
         THEN [exc |-> "", status |-> status, data2 |-> Some(63)]
         ELSE [exc |-> "", status |-> status, data2 |-> Some(65)]
    ELSE [exc |-> "", status |-> status, data2 |-> data2]

\* (mutation of Normalize: NoteOff is looked up under its own status)
Normalize_KeepsNoteOff(status, data2) ==
    IF status = CONTROLLER_CHANGE
    THEN IF data2 = None
         THEN [exc |-> "TypeError", status |-> status, data2 |-> data2]
         ELSE IF data2[1] < 64
         THEN [exc |-> "", status |-> status, data2 |-> Some(63)]
         ELSE IF data2[1] > 64
         THEN [exc |-> "", status |-> status, data2 |-> Some(65)]
         ELSE [exc |-> "", status |-> status, data2 |-> data2]
    ELSE [exc |-> "", status |-> status, data2 |-> data2]

\* the rewriting of status and data2 that precedes the loop; comparing None
\* with an int raises TypeError
Normalize(status, data2) ==
    IF status = NOTE_OFF
    THEN [exc |-> "", status |-> NOTE_ON, data2 |-> data2]
    ELSE IF status = CONTROLLER_CHANGE
    THEN IF data2 = None
         THEN [exc |-> "TypeError", status |-> status, data2 |-> data2]
         ELSE IF data2[1] < 64
         THEN [exc |-> "", status |-> status, data2 |-> Some(63)]
         ELSE IF data2[1] > 64
         THEN [exc |-> "", status |-> status, data2 |-> Some(65)]
         ELSE [exc |-> "", status |-> status, data2 |-> data2]
    ELSE [exc |-> "", status |-> status, data2 |-> data2]

\* keystroke.channel != channel is skipped only for a message without channel
ChannelSkips(keystroke, channel) ==
    channel # None /\ keystroke.channel # channel

\* keystroke.data == data1
DataEquals(data, data1) ==
    \/ data.kind = "none" /\ data1 = None
    \/ data.kind = "int" /\ data1 = data.ints

\* the loop over the rules of one status, from the i-th on: the first rule
\* that matches (<<rule>>), None when the loop ends, or the IndexError of
\* reading an element a short data list does not have
RECURSIVE SelectFrom(_, _, _, _, _, _)
SelectFrom(rules, i, status, channel, data1, data2) ==
    IF i > Len(rules)
    THEN [exc |-> "", val |-> None]
    ELSE LET keystroke == rules[i]
             d == keystroke.data
         IN  IF ChannelSkips(keystroke, channel)
             THEN SelectFrom(rules, i + 1, status, channel, data1, data2)
             ELSE IF status = NOTE_ON /\ DataEquals(d, data1)
             THEN [exc |-> "", val |-> Some(keystroke)]
             ELSE IF d.kind # "list"
             THEN SelectFrom(rules, i + 1, status, channel, data1, data2)
             ELSE IF Len(d.ints) < 1
             THEN [exc |-> "IndexError", val |-> None]
             ELSE IF Some(d.ints[1]) # data1
             THEN SelectFrom(rules, i + 1, status, channel, data1, data2)
             ELSE IF Len(d.ints) < 2
             THEN [exc |-> "IndexError", val |-> None]
             ELSE IF Some(d.ints[2]) = data2
             THEN [exc |-> "", val |-> Some(keystroke)]
             ELSE SelectFrom(rules, i + 1, status, channel, data1, data2)

\* the body of lookup_command, without the cache
LookupBody(keystrokes_, status, channel, data1, data2) ==
    LET n == Normalize(status, data2)
    IN  IF n.exc # ""
        THEN [exc |-> n.exc, val |-> None]
        ELSE SelectFrom(Get(keystrokes_, Some(n.status)), 1,
                        n.status, channel, data1, n.data2)

(* ---------------- functools.lru_cache around lookup_command ---------------- *)
\* (mutation of CacheKey: the key is built from the status as rewritten for
\* the lookup, NoteOff as NoteOn)
CacheKey_StatusRewritten(status, channel, data1, data2) ==
    <<IF status = NOTE_OFF THEN NOTE_ON ELSE status, channel, data1, data2>>

\* (mutation of CacheKey: the second data byte is left out of the key)
CacheKey_NoData2(status, channel, data1, data2) == <<status, channel, data1, None>>

\* the cache is the sequence of its entries, least recently used first
CacheKey(status, channel, data1, data2) == <<status, channel, data1, data2>>

CacheIndex(cache_, key) ==
    IF \E i \in 1..Len(cache_) : cache_[i].key = key
    THEN CHOOSE i \in 1..Len(cache_) : cache_[i].key = key
    ELSE 0

Remove(seq, i) == SubSeq(seq, 1, i - 1) \o SubSeq(seq, i + 1, Len(seq))

\* lookup_command as the callers see it: the result (or the exception) and
\* the cache afterwards. A hit moves the entry to the recent end; a miss
\* runs the body, stores its result (an exception stores nothing) and
\* drops the least recently used entry of a full cache
lookup_command(keystrokes_, cache_, status, channel, data1, data2) ==
    LET key == CacheKey(status, channel, data1, data2)
        at == CacheIndex(cache_, key)
    IN  IF at # 0
        THEN [exc |-> "", val |-> cache_[at].val, hit |-> TRUE,
              cache |-> Append(Remove(cache_, at), cache_[at])]
        ELSE LET r == LookupBody(keystrokes_, status, channel, data1, data2)
             IN  IF r.exc # ""
                 THEN [exc |-> r.exc, val |-> None, hit |-> FALSE, cache |-> cache_]
                 ELSE LET stored == Append(cache_, [key |-> key, val |-> r.val])
                      IN  [exc |-> "", val |-> r.val, hit |-> FALSE,
                           cache |-> IF Len(stored) > CacheMaxSize
                                     THEN Tail(stored) ELSE stored]

\* (mutation of ActionType: derived from the status as rewritten for the
\* lookup, where NoteOff has become NoteOn)
ActionType_FromLookupStatus(status) ==
    IF status = CONTROLLER_CHANGE THEN KEY_DOWN_UP ELSE KEY_DOWN

\* the action type __call__ derives from the status of the message
ActionType(status) ==
    IF status = CONTROLLER_CHANGE THEN KEY_DOWN_UP
    ELSE IF status = NOTE_OFF THEN KEY_UP
    ELSE KEY_DOWN

(* ---------------- MidiInputHandler.do_command: control positions ---------------- *)
\* where do_command stands once the release loop has reached its i-th key
PlaceRelease(i, keys, action_type) ==
    IF action_type \in {KEY_UP, KEY_DOWN_UP} /\ i <= Len(keys)
    THEN [pc |-> "release", idx |-> i]
    ELSE [pc |-> "idle", idx |-> 1]

\* (mutation of PlaceDelay: the release loop follows the press loop at once)
PlaceDelay_NoSleep(keys, action_type) ==
    PlaceRelease(1, keys, action_type)

\* ... once the press loop is over
PlaceDelay(keys, action_type) ==
    IF action_type = KEY_DOWN_UP
    THEN [pc |-> "delay", idx |-> 1]
    ELSE PlaceRelease(1, keys, action_type)

\* ... once the press loop has reached its i-th key
PlacePress(i, keys, action_type) ==
    IF action_type \in {KEY_DOWN, KEY_DOWN_UP} /\ i <= Len(keys)
    THEN [pc |-> "press", idx |-> i]
    ELSE PlaceDelay(keys, action_type)

Call(op, key) == [op |-> op, key |-> key]

(* ---------------- inputs ---------------- *)
Str_noteon == <<"n","o","t","e","o","n">>
Str_programchange == <<"p","r","o","g","r","a","m","c","h","a","n","g","e">>
Str_controllerchange == <<"c","o","n","t","r","o","l","l","e","r","c","h","a","n","g","e">>

\* the rule records a configuration file is made of
CmdSpecs ==
    { CmdSpec(Str_noteon, None, YInt(14), <<"A">>),
      CmdSpec(Str_noteon, Some(16), YInt(14), <<"B">>),
      CmdSpec(Str_noteon, Some(16), YStr(<<"1","4"," ","1","2","7">>), <<"C">>),
      CmdSpec(Str_programchange, Some(16), YInt(5), <<"F","1">>),
      CmdSpec(Str_controllerchange, Some(16), YStr(<<"1","4"," ","1","2","7">>),
              <<"F","2">>),
      CmdSpec(Str_controllerchange, Some(16), YStr(<<"1","4"," ","6","5">>),
              <<"F","1"," ","F","2">>),
      CmdSpec(Str_controllerchange, Some(16), YStr(<<"1","4"," ","6","3">>),
              <<"F","3">>),
      CmdSpec(Str_controllerchange, Some(16), YStr(<<"1","4">>), <<"F","4">>) }

RECURSIVE SeqsUpTo(_, _)
SeqsUpTo(S, n) ==
    IF n = 0 THEN {<<>>}
    ELSE LET shorter == SeqsUpTo(S, n - 1)
         IN  shorter \cup {Append(q, x) : q \in shorter, x \in S}

\* the configuration files: a missing one, and every list of up to MaxRules rules
Configs ==
    {[exists |-> FALSE, data |-> <<>>]} \cup
    {[exists |-> TRUE, data |-> d] : d \in SeqsUpTo(CmdSpecs, MaxRules)}

\* the raw MIDI messages the input port delivers (1 to 3 bytes)
Messages ==
    { <<159, 14, 127>>, <<143, 14, 0>>,
      <<191, 14, 127>>, <<191, 14, 65>>, <<191, 14, 64>>, <<191, 14, 63>>,
      <<191, 14, 0>>, <<191, 14>>,
      <<207, 5>>, <<248>> }

\* the calls of sendKey that can raise while one key is handled
PressCalls == {"SetKeyboardConsts", "PressKey"}
ReleaseCalls == {"SetKeyboardConsts", "ReleaseKey"}

(* ---------------- state ---------------- *)
VARIABLES
    mainpc,      \* where main() stands
    port,        \* the MIDI input port is open
    config,      \* the configuration file named on the command line, until it is read
    keystrokes,  \* MidiInputHandler.keystrokes: status -> list of KeyStroke
    cache,       \* the lru_cache of lookup_command
    delivered,   \* number of messages delivered so far
    hpc,         \* where the callback stands: idle, press, delay, release
    msg,         \* the message being handled (the last one, when idle)
    cmd,         \* the rule lookup_command returned for it, or None
    idx,         \* index of the key the running loop of do_command is at
    calls,       \* the sendKey/sleep calls made for msg so far, in order
    exc,         \* the exception that left __call__ for msg ("" = none)
    caught,      \* the call whose exception do_command caught for msg ("" = none)
    errors,      \* number of log.exception records written by do_command
    decoded,     \* status, channel, data1, data2 of msg as __call__ decoded them
    hit          \* the lookup for msg was answered from the cache

vars == <<mainpc, port, config, keystrokes, cache, delivered,
          hpc, msg, cmd, idx, calls, exc, caught, errors, decoded, hit>>

mainVars == <<mainpc, port, config, keystrokes>>

Init ==
    /\ mainpc = "start"
    /\ port = FALSE
    /\ config \in Configs
    /\ keystrokes = <<>>
    /\ cache = <<>>
    /\ delivered = 0
    /\ hpc = "idle"
    /\ msg = <<>>
    /\ cmd = None
    /\ idx = 1
    /\ calls = <<>>
    /\ exc = ""
    /\ caught = ""
    /\ errors = 0
    /\ decoded = None
    /\ hit = FALSE

(* ---------------- main ---------------- *)
\* open_midiinput succeeds
OpenPort ==
    /\ mainpc = "start"
    /\ port' = TRUE
    /\ mainpc' = "opened"
    /\ UNCHANGED <<config, keystrokes, cache, delivered, hpc, msg, cmd, idx,
                   calls, exc, caught, errors, decoded, hit>>

\* open_midiinput raises: IOError/ValueError (main returns the error text)
\* or EOFError/KeyboardInterrupt (main returns None)
OpenPortFails(how) ==
    /\ mainpc = "start"
    /\ mainpc' = how
    /\ UNCHANGED <<port, config, keystrokes, cache, delivered, hpc, msg, cmd, idx,
                   calls, exc, caught, errors, decoded, hit>>

\* MidiInputHandler(port_name, args.config) and midiin.set_callback: an
\* exception of load_config leaves main uncaught. The file is read here and
\* never again: once loaded, config holds nothing more to read
Construct ==
    /\ mainpc = "opened"
    /\ LET loaded == load_config(config)
       IN  IF loaded.exc = ""
           THEN /\ keystrokes' = loaded.keystrokes
                /\ config' = [exists |-> TRUE, data |-> <<>>]
                /\ mainpc' = "listening"
           ELSE /\ keystrokes' = keystrokes
                /\ config' = config
                /\ mainpc' = "crashed"
    /\ UNCHANGED <<port, cache, delivered, hpc, msg, cmd, idx,
                   calls, exc, caught, errors, decoded, hit>>

\* KeyboardInterrupt in the main loop: the finally clause closes the port and
\* deletes midiin, and with it the callback object; the process ends, whatever
\* the callback was doing
Interrupt ==
    /\ mainpc = "listening"
    /\ port' = FALSE
    /\ mainpc' = "exited"
    /\ keystrokes' = <<>>
    /\ cache' = <<>>
    /\ delivered' = 0
    /\ hpc' = "idle"
    /\ msg' = <<>>
    /\ cmd' = None
    /\ idx' = 1
    /\ calls' = <<>>
    /\ exc' = ""
    /\ caught' = ""
    /\ errors' = 0
    /\ decoded' = None
    /\ hit' = FALSE
    /\ UNCHANGED config

(* ---------------- MidiInputHandler.__call__ ---------------- *)
\* (mutation of Deliver: the callback is entered while the dispatch of the
\* message before is still running)
Deliver_Reentrant(event) ==
    /\ mainpc = "listening"
    /\ delivered < MaxEvents
    /\ LET d == Decode(event)
           found == lookup_command(keystrokes, cache,
                                   d.status, d.channel, d.data1, d.data2)
           at == IF found.exc = "" /\ found.val # None
                 THEN PlacePress(1, found.val[1].keys, ActionType(d.status))
                 ELSE [pc |-> "idle", idx |-> 1]
       IN  /\ msg' = event
           /\ decoded' = Some(d)
           /\ hit' = found.hit
           /\ cache' = found.cache
           /\ exc' = found.exc
           /\ cmd' = found.val
           /\ hpc' = at.pc
           /\ idx' = at.idx
    /\ delivered' = delivered + 1
    /\ calls' = <<>>
    /\ caught' = ""
    /\ UNCHANGED <<mainVars, errors>>

\* a message arrives: decode, lookup_command, and the entry into do_command
Deliver(event) ==
    /\ mainpc = "listening"
    /\ hpc = "idle"
    /\ delivered < MaxEvents
    /\ LET d == Decode(event)
           found == lookup_command(keystrokes, cache,
                                   d.status, d.channel, d.data1, d.data2)
           at == IF found.exc = "" /\ found.val # None
                 THEN PlacePress(1, found.val[1].keys, ActionType(d.status))
                 ELSE [pc |-> "idle", idx |-> 1]
       IN  /\ msg' = event
           /\ decoded' = Some(d)
           /\ hit' = found.hit
           /\ cache' = found.cache
           /\ exc' = found.exc
           /\ cmd' = found.val
           /\ hpc' = at.pc
           /\ idx' = at.idx
    /\ delivered' = delivered + 1
    /\ calls' = <<>>
    /\ caught' = ""
    /\ UNCHANGED <<mainVars, errors>>

(* ---------------- MidiInputHandler.do_command ---------------- *)
\* SetKeyboardConsts and PressKey of the idx-th key return
Press ==
    /\ hpc = "press"
    /\ LET keys == cmd[1].keys
           at == PlacePress(idx + 1, keys, ActionType(Decode(msg).status))
       IN  /\ calls' = Append(calls, Call("press", keys[idx]))
           /\ hpc' = at.pc
           /\ idx' = at.idx
    /\ UNCHANGED <<mainVars, cache, delivered, msg, cmd, exc, caught, errors, decoded, hit>>

\* (mutation of PressFails: no except clause, the exception leaves __call__)
PressFails_Propagates(call) ==
    /\ hpc = "press"
    /\ exc' = call
    /\ hpc' = "idle"
    /\ idx' = 1
    /\ UNCHANGED <<mainVars, cache, delivered, msg, cmd, calls, caught, errors, decoded, hit>>

\* (mutation of PressFails: the failure is logged and the loop goes on with
\* the next key)
PressFails_SkipsKey(call) ==
    /\ hpc = "press"
    /\ caught' = call
    /\ errors' = errors + 1
    /\ LET at == PlacePress(idx + 1, cmd[1].keys, ActionType(Decode(msg).status))
       IN  hpc' = at.pc /\ idx' = at.idx
    /\ UNCHANGED <<mainVars, cache, delivered, msg, cmd, calls, exc, decoded, hit>>

\* one of them raises: the except clause logs it and do_command returns
PressFails(call) ==
    /\ hpc = "press"
    /\ caught' = call
    /\ errors' = errors + 1
    /\ hpc' = "idle"
    /\ idx' = 1
    /\ UNCHANGED <<mainVars, cache, delivered, msg, cmd, calls, exc, decoded, hit>>

\* time.sleep(0.01) between the two loops
Delay ==
    /\ hpc = "delay"
    /\ LET at == PlaceRelease(1, cmd[1].keys, ActionType(Decode(msg).status))
       IN  /\ calls' = Append(calls, Call("sleep", <<>>))
           /\ hpc' = at.pc
           /\ idx' = at.idx
    /\ UNCHANGED <<mainVars, cache, delivered, msg, cmd, exc, caught, errors, decoded, hit>>

\* SetKeyboardConsts and ReleaseKey of the idx-th key return
Release ==
    /\ hpc = "release"
    /\ LET keys == cmd[1].keys
           at == PlaceRelease(idx + 1, keys, ActionType(Decode(msg).status))
       IN  /\ calls' = Append(calls, Call("release", keys[idx]))
           /\ hpc' = at.pc
           /\ idx' = at.idx
    /\ UNCHANGED <<mainVars, cache, delivered, msg, cmd, exc, caught, errors, decoded, hit>>

\* (mutation of ReleaseFails: the rule whose dispatch failed is taken out
\* of the rule table)
ReleaseFails_DisablesRule(call) ==
    /\ hpc = "release"
    /\ caught' = call
    /\ errors' = errors + 1
    /\ hpc' = "idle"
    /\ idx' = 1
    /\ keystrokes' = [k \in DOMAIN keystrokes |->
                        SelectSeq(keystrokes[k], LAMBDA rule : rule # cmd[1])]
    /\ UNCHANGED <<mainpc, port, config, cache, delivered, msg, cmd, calls, exc,
                   decoded, hit>>

\* one of them raises: the except clause logs it and do_command returns
ReleaseFails(call) ==
    /\ hpc = "release"
    /\ caught' = call
    /\ errors' = errors + 1
    /\ hpc' = "idle"
    /\ idx' = 1
    /\ UNCHANGED <<mainVars, cache, delivered, msg, cmd, calls, exc, decoded, hit>>

Next ==
    \/ OpenPort
    \/ \E how \in {"failed", "cancelled"} : OpenPortFails(how)
    \/ Construct
    \/ Interrupt
    \/ \E event \in Messages : Deliver(event)
    \/ Press
    \/ \E call \in PressCalls : PressFails(call)
    \/ Delay
    \/ Release
    \/ \E call \in ReleaseCalls : ReleaseFails(call)

Spec == Init /\ [][Next]_vars

(* ---------------- the start of main on configuration files of every kind ---------------- *)
Str_176 == <<"1","7","6">>
Str_bogus == <<"b","o","g","u","s">>

\* rule records: well-formed ones, data lists of one and of three numbers,
\* data that is no number and data of another type, a numeric status string
\* and an unknown status name
LoadCmdSpecs ==
    { CmdSpec(Str_noteon, Some(16), YInt(14), <<"A">>),
      CmdSpec(Str_noteon, Some(16), YStr(<<"1","4"," ","1","2","7">>), <<"C">>),
      CmdSpec(Str_controllerchange, Some(16), YStr(<<"1","4">>), <<"F","4">>),
      CmdSpec(Str_controllerchange, Some(16), YStr(<<"1"," ","2"," ","3">>), <<"F","5">>),
      CmdSpec(Str_noteon, Some(16), YStr(<<"x">>), <<"A">>),
      CmdSpec(Str_noteon, Some(16), YOther, <<"A">>),
      CmdSpec(Str_176, Some(16), YStr(<<"1","4"," ","6","5">>), <<"F","1">>),
      CmdSpec(Str_bogus, Some(16), YNone, <<"F","2">>) }

LoadConfigs ==
    {[exists |-> FALSE, data |-> <<>>]} \cup
    {[exists |-> TRUE, data |-> d] : d \in SeqsUpTo(LoadCmdSpecs, MaxRules)}

InitLoad ==
    /\ mainpc = "start"
    /\ port = FALSE
    /\ config \in LoadConfigs
    /\ keystrokes = <<>>
    /\ cache = <<>>
    /\ delivered = 0
    /\ hpc = "idle"
    /\ msg = <<>>
    /\ cmd = None
    /\ idx = 1
    /\ calls = <<>>
    /\ exc = ""
    /\ caught = ""
    /\ errors = 0
    /\ decoded = None
    /\ hit = FALSE

\* main with no message arriving
NextLoad ==
    \/ OpenPort
    \/ \E how \in {"failed", "cancelled"} : OpenPortFails(how)
    \/ Construct
    \/ Interrupt

SpecLoad == InitLoad /\ [][NextLoad]_vars

(* ---------------- note rules and note messages ---------------- *)
Str_noteoff == <<"n","o","t","e","o","f","f">>
Str_NoteOff_padded == <<" ","N","o","t","e","O","f","f"," ">>

\* a noteon rule, and noteoff rules that name the note by its number and by
\* the pair of its number and velocity
NoteCmdSpecs ==
    { CmdSpec(Str_noteon, Some(16), YInt(14), <<"B">>),
      CmdSpec(Str_NoteOff_padded, Some(16), YInt(14), <<"D">>),
      CmdSpec(Str_noteoff, Some(16), YStr(<<"1","4"," ","0">>), <<"E">>) }

NoteConfigs ==
    {[exists |-> TRUE, data |-> d] : d \in SeqsUpTo(NoteCmdSpecs, MaxRules)}

\* NoteOn and NoteOff of note 14 on channel 16, with velocity 127 and 0
NoteMessages ==
    { <<159, 14, 127>>, <<143, 14, 127>>, <<159, 14, 0>>, <<143, 14, 0>> }

InitNotes ==
    /\ mainpc = "start"
    /\ port = FALSE
    /\ config \in NoteConfigs
    /\ keystrokes = <<>>
    /\ cache = <<>>
    /\ delivered = 0
    /\ hpc = "idle"
    /\ msg = <<>>
    /\ cmd = None
    /\ idx = 1
    /\ calls = <<>>
    /\ exc = ""
    /\ caught = ""
    /\ errors = 0
    /\ decoded = None
    /\ hit = FALSE

\* no controller message comes in: do_command never reaches its sleep
NextNotes ==
    \/ OpenPort
    \/ Construct
    \/ Interrupt
    \/ \E event \in NoteMessages : Deliver(event)
    \/ Press
    \/ \E call \in PressCalls : PressFails(call)
    \/ Release
    \/ \E call \in ReleaseCalls : ReleaseFails(call)

SpecNotes == InitNotes /\ [][NextNotes]_vars

(* ---------------- the decoding of __call__ on its own ---------------- *)
\* messages of one, two and three bytes with every first byte
DecodeMessages ==
    UNION {{<<b>>, <<b, 14>>, <<b, 14, 127>>} : b \in 0..255}

\* the handler has been called with a message and has decoded nothing yet
InitDecode ==
    /\ mainpc = "listening"
    /\ port = TRUE
    /\ config = [exists |-> TRUE, data |-> <<>>]
    /\ keystrokes = <<>>
    /\ cache = <<>>
    /\ delivered = 0
    /\ hpc = "called"
    /\ msg \in DecodeMessages
    /\ cmd = None
    /\ idx = 1
    /\ calls = <<>>
    /\ exc = ""
    /\ caught = ""
    /\ errors = 0
    /\ decoded = None
    /\ hit = FALSE

\* the first part of __call__: status, channel, data1, data2 are assigned
DecodeCalled ==
    /\ hpc = "called"
    /\ decoded' = Some(Decode(msg))
    /\ hpc' = "idle"
    /\ UNCHANGED <<mainVars, cache, delivered, msg, cmd, idx, calls, exc,
                   caught, errors, hit>>

NextDecode == DecodeCalled

SpecDecode == InitDecode /\ [][NextDecode]_vars

TypeOK ==
    /\ mainpc \in {"start", "opened", "listening", "exited", "failed",
                   "cancelled", "crashed"}
    /\ port \in BOOLEAN
    /\ hpc \in {"idle", "press", "delay", "release"}
    /\ delivered \in 0..MaxEvents
    /\ Len(cache) <= delivered
    /\ errors \in 0..delivered
    /\ hit \in BOOLEAN
    /\ (decoded = None) = (msg = <<>>)
    /\ decoded # None => decoded = Some(Decode(msg))

(* ======================================================================= *)
(* Properties                                                              *)
(* ======================================================================= *)
\* a message has been handed to the callback (msg is that message)
Handled == msg # <<>>

Status == Decode(msg).status
Channel == Decode(msg).channel
Data1 == Decode(msg).data1
Data2 == Decode(msg).data2

\* the status the rule table is consulted under
LookupStatus == IF Status = NOTE_OFF THEN NOTE_ON ELSE Status

\* the bucket of a controller value: 63 below 64, 65 above, 64 itself
Bucket(v) == IF v \in 0..63 THEN 63 ELSE IF v \in 65..127 THEN 65 ELSE v

\* data2 as the selection sees it
LookupData2 ==
    IF Status = CONTROLLER_CHANGE /\ Data2 # None THEN Some(Bucket(Data2[1])) ELSE Data2

\* the selection condition as the specification words it: the channel is
\* absent or equal, and the data is the single value data1 (note-on
\* category) or the pair (data1, data2)
Selectable(rule) ==
    /\ rule.channel = None \/ rule.channel = Channel
    /\ \/ LookupStatus = NOTE_ON /\ rule.data.kind = "int" /\ rule.data.ints = Data1
       \/ /\ rule.data.kind = "list"
          /\ Len(rule.data.ints) = 2
          /\ Some(rule.data.ints[1]) = Data1
          /\ Some(rule.data.ints[2]) = LookupData2

\* the rules stored under the status of msg
Candidates == Get(keystrokes, Some(LookupStatus))

\* the operations called for msg so far
Ops == {calls[i].op : i \in 1..Len(calls)}

\* do_command ran to its end for msg and caught nothing
Finished == Handled /\ hpc = "idle" /\ cmd # None /\ exc = "" /\ caught = ""

Presses(keys) == [i \in 1..Len(keys) |-> Call("press", keys[i])]
Releases(keys) == [i \in 1..Len(keys) |-> Call("release", keys[i])]

IsPrefix(p, q) == Len(p) <= Len(q) /\ p = SubSeq(q, 1, Len(p))

\* C1: first match wins. When two rules stored under the status of the
\* message both satisfy the selection condition, the earlier one without
\* channel and the later one naming the channel of the message, with the
\* same data, lookup_command returns a rule no later than the earlier one.
C1_FirstMatchWins ==
    Handled =>
        \A i \in 1..Len(Candidates) : \A j \in 1..Len(Candidates) :
            ( /\ i < j
              /\ Candidates[i].channel = None
              /\ Channel # None
              /\ Candidates[j].channel = Channel
              /\ Candidates[i].data = Candidates[j].data
              /\ Selectable(Candidates[i])
              /\ Selectable(Candidates[j]) )
            => \E k \in 1..i : cmd = Some(Candidates[k])

\* C2: a rule without channel matches a message on any channel. When a rule
\* without channel whose data matches is stored under the status of a
\* message that has a channel, lookup_command returns a rule.
C2_AbsentChannelMatchesAny ==
    Handled =>
        \A i \in 1..Len(Candidates) :
            ( /\ Candidates[i].channel = None
              /\ Channel \in {Some(c) : c \in 1..16}
              /\ Selectable(Candidates[i]) )
            => cmd # None

\* C3: the lookups of a NoteOn and of a NoteOff message with the same channel
\* and data1 return the same rule or both none, whatever their data2.
C3_NoteOnOffSameRule ==
    \A a \in 1..Len(cache) : \A b \in 1..Len(cache) :
        ( /\ cache[a].key[1] = NOTE_ON
          /\ cache[b].key[1] = NOTE_OFF
          /\ cache[a].key[2] = cache[b].key[2]
          /\ cache[a].key[3] = cache[b].key[3] )
        => cache[a].val = cache[b].val

\* C4: a ControllerChange message is looked up by the bucket of its data2:
\* 0..63 as 63, 65..127 as 65, 64 as itself. The outcome of the lookup is
\* that of the selection loop run with the bucket, and for data2 = 64 the
\* rule returned has neither 63 nor 65 as the second element of its pair.
C4_ControllerBuckets ==
    (Handled /\ Status = CONTROLLER_CHANGE /\ Data2 # None) =>
        LET v == Data2[1]
            looked == IF v \in 0..63 THEN 63 ELSE IF v \in 65..127 THEN 65 ELSE 64
            selected == SelectFrom(Get(keystrokes, Some(CONTROLLER_CHANGE)), 1,
                                   CONTROLLER_CHANGE, Channel, Data1, Some(looked))
        IN  /\ exc = selected.exc
            /\ cmd = selected.val
            /\ (v = 64 /\ cmd # None) => cmd[1].data.ints[2] \notin {63, 65}

C4_Witness ==
    /\ Handled /\ Status = CONTROLLER_CHANGE /\ Data2 # None
    /\ Data2[1] \in 0..62
    /\ cmd # None
    /\ cmd[1].data.ints[2] = 63

\* C5: a programchange rule with channel c and the single integer d as data
\* is returned for the ProgramChange message of channel c and data1 d, and
\* the keys of the rule are pressed and not released.
C5_ProgramChangeRule ==
    (Handled /\ Status = PROGRAM_CHANGE) =>
        \A i \in 1..Len(Candidates) :
            ( /\ Candidates[i].channel = Channel
              /\ Candidates[i].data.kind = "int"
              /\ Candidates[i].data.ints = Data1 )
            => /\ cmd # None
               /\ cmd[1].channel = Channel
               /\ cmd[1].data = Candidates[i].data
               /\ Ops \subseteq {"press"}
               /\ Finished => calls = Presses(cmd[1].keys)

\* C6: a controllerchange rule whose configured pair is (n, v), with v in a
\* bucket, is matched by the ControllerChange messages of its channel with
\* data1 = n and data2 in the bucket of v (the rule "14 127" by the message
\* 0xBF 0x0E 0x7F); its keys are pressed and, after the delay, released.
C6_ConfiguredBucketMatches ==
    (Handled /\ Status = CONTROLLER_CHANGE /\ Data2 # None) =>
        \A i \in 1..Len(Candidates) :
            ( /\ Candidates[i].channel = Channel
              /\ Candidates[i].data.kind = "list"
              /\ Len(Candidates[i].data.ints) = 2
              /\ Some(Candidates[i].data.ints[1]) = Data1
              /\ Candidates[i].data.ints[2] # 64
              /\ Bucket(Candidates[i].data.ints[2]) = Bucket(Data2[1]) )
            => /\ cmd # None
               /\ Finished =>
                    calls = Presses(cmd[1].keys) \o <<Call("sleep", <<>>)>>
                            \o Releases(cmd[1].keys)

\* C7: the action follows the status of the message as it arrived: NoteOff
\* only releases, ControllerChange presses, sleeps and releases, every other
\* status only presses. A NoteOff message never causes a press.
C7_ActionFromOriginalStatus ==
    (Handled /\ cmd # None) =>
        LET keys == cmd[1].keys
        IN  /\ Status = NOTE_OFF =>
                /\ Ops \subseteq {"release"}
                /\ (Finished /\ keys # <<>>) => Ops = {"release"}
            /\ Status = CONTROLLER_CHANGE =>
                /\ Finished => "sleep" \in Ops
                /\ (Finished /\ keys # <<>>) => Ops = {"press", "sleep", "release"}
            /\ Status \notin {NOTE_OFF, CONTROLLER_CHANGE} =>
                /\ Ops \subseteq {"press"}
                /\ (Finished /\ keys # <<>>) => Ops = {"press"}

C7_Witness ==
    /\ Finished
    /\ Status = NOTE_OFF
    /\ calls # <<>>
    /\ \E i \in 1..Len(Candidates) : cmd = Some(Candidates[i])

\* C8: the calls of a dispatch without failure are, in order: for
\* press-then-release the press of every key in listed order, the delay, the
\* release of every key in listed order; for press-only the presses; for
\* release-only the releases. While the dispatch runs the calls made so far
\* are a prefix of that sequence.
C8_CallSequence ==
    (Handled /\ cmd # None) =>
        LET keys == cmd[1].keys
            whole == IF Status = CONTROLLER_CHANGE
                     THEN Presses(keys) \o <<Call("sleep", <<>>)>> \o Releases(keys)
                     ELSE IF Status = NOTE_OFF THEN Releases(keys)
                     ELSE Presses(keys)
        IN  /\ IsPrefix(calls, whole)
            /\ Finished => calls = whole

C8_Witness ==
    /\ Finished
    /\ Status = CONTROLLER_CHANGE
    /\ Len(cmd[1].keys) = 2
    /\ Len(calls) = 5

\* C9: a message that no rule matches causes no key-injection call and
\* raises no error.
C9_UnmatchedIsSilent ==
    (Handled /\ cmd = None) => (exc = "" /\ calls = <<>>)

\* one step of the program, as C10 requires it: a step of do_command leaves
\* the exception of __call__ as it was; a caught failure is logged and leaves
\* the callback idle and main listening; the message delivered after a
\* failure gets the outcome of the plain lookup and starts its dispatch
C10_Step ==
    /\ (hpc # "idle" /\ mainpc' = "listening") => exc' = exc
    /\ caught' # "" => (hpc' = "idle" /\ mainpc' = "listening" /\ errors' > 0)
    /\ (errors > 0 /\ delivered' = delivered + 1) =>
          LET d == Decode(msg')
              r == LookupBody(keystrokes, d.status, d.channel, d.data1, d.data2)
          IN  /\ exc' = r.exc
              /\ cmd' = r.val
              /\ calls' = <<>>
              /\ (r.val # None /\ r.val[1].keys # <<>>) => hpc' # "idle"

\* C10: a failure of SetKeyboardConsts, PressKey or ReleaseKey is caught in
\* do_command: no step of do_command lets an exception leave the callback,
\* after the failure the callback is idle and main still listens, and the
\* message that follows a failure is looked up and dispatched as any other.
C10_FailureIsCaught == [][C10_Step]_vars

C10_Witness ==
    /\ errors > 0
    /\ Finished
    /\ calls # <<>>

(* ---------------- C11 .. C20 ---------------- *)
\* the fields of the message as __call__ decoded them
Event == decoded[1]

\* what the body of lookup_command selects from the rule table as it is now
Uncached(status, channel, data1, data2) ==
    LookupBody(keystrokes, status, channel, data1, data2)

\* C11: with the rule table unchanged, lookup_command is deterministic and
\* its memoization is transparent: whatever lookups came before, the lookup
\* for the handled message gave the rule (or none, or the exception) that
\* the uncached selection gives, and so does every entry the cache holds
C11_MemoizationTransparent ==
    /\ Handled =>
           LET r == Uncached(Event.status, Event.channel, Event.data1, Event.data2)
           IN  exc = r.exc /\ cmd = r.val
    /\ \A i \in 1..Len(cache) :
           LET k == cache[i].key
               r == Uncached(k[1], k[2], k[3], k[4])
           IN  r.exc = "" /\ cache[i].val = r.val

\* a second lookup of the same arguments was answered from the cache, with a rule
C11_Witness == Handled /\ hit /\ delivered > 1 /\ cmd # None

\* the bitwise and of two naturals, bit by bit
RECURSIVE BitAnd(_, _)
BitAnd(a, b) ==
    IF a = 0 \/ b = 0 THEN 0
    ELSE (a % 2) * (b % 2) + 2 * BitAnd(a \div 2, b \div 2)

\* C12: for every first byte b in 0..255: below 0xF0 the status is b & 0xF0
\* and the channel is (b & 0xF) + 1, a value of 1..16; from 0xF0 on the
\* status is b and the channel is absent; data1 is present exactly when the
\* message has at least two bytes and data2 exactly when it has at least three
C12_Decoding ==
    decoded # None =>
        LET b == msg[1]
        IN  /\ b < 240 => /\ Event.status = BitAnd(b, 240)
                          /\ Event.channel = Some(BitAnd(b, 15) + 1)
                          /\ Event.channel[1] \in 1..16
            /\ b >= 240 => Event.status = b /\ Event.channel = None
            /\ (Event.data1 # None) = (Len(msg) >= 2)
            /\ (Event.data2 # None) = (Len(msg) >= 3)

\* a channel message on the last channel has been decoded
C12_Witness ==
    decoded # None /\ msg[1] = 239 /\ Len(msg) = 2 /\ Event.channel = Some(16)

\* every rule of the table, whatever key it is stored under
StoredRules ==
    UNION {{keystrokes[k][i] : i \in 1..Len(keystrokes[k])} : k \in DOMAIN keystrokes}

\* the load errors the specification names: a missing file, a malformed
\* rule, a status that is neither a known name nor an integer
LoadError(file) ==
    \/ ~file.exists
    \/ \E i \in 1..Len(file.data) :
          \/ KeyStroke(file.data[i]).exc # ""
          \/ StatusOf(file.data[i]) = None /\ int(file.data[i].status) = None

\* C13: a configuration with a load error is rejected before any MIDI input
\* port is opened: while such a configuration is the one to load, the port
\* is never open and the process never listens
C13_LoadErrorBeforePort ==
    LoadError(config) => ~port /\ mainpc # "listening"

\* C14: once the load has succeeded every stored rule has data that is
\* absent, one integer, or a pair of exactly two integers
C14_DataArity ==
    mainpc = "listening" =>
        \A rule \in StoredRules :
            rule.data.kind = "list" => Len(rule.data.ints) = 2

\* C15: a rule whose status is no known name but a numeric string N is
\* stored under the status code N
C15_NumericStatusKey ==
    \A k \in DOMAIN keystrokes : \A i \in 1..Len(keystrokes[k]) :
        LET rule == keystrokes[k][i]
        IN  StatusOf(rule) = None /\ int(rule.status) # None => k = int(rule.status)

\* one step, as C16 requires it: a message enters the callback only when the
\* dispatch of the message before has ended, and every key-injection call
\* that is made belongs to the message being handled
C16_Step ==
    /\ delivered' = delivered + 1 => hpc = "idle"
    /\ (calls' # calls /\ calls' # <<>>) =>
          /\ msg' = msg /\ delivered' = delivered
          /\ calls' = Append(calls, calls'[Len(calls')])

C17_RuleSetFrozen ==
    [][keystrokes' # keystrokes => (mainpc = "opened" \/ mainpc' = "exited")]_vars

\* after a dispatch that failed, a message that matches no rule has been
\* handled, and the table still holds its rules
C17_Witness ==
    /\ delivered > 1 /\ errors > 0 /\ hpc = "idle" /\ cmd = None
    /\ StoredRules # {}

\* C18: the first failing call ends the whole dispatch. A failure at the
\* k-th key of the press loop: the keys before it are pressed, no later key
\* is pressed and nothing is released. A failure in the release loop: the
\* keys after the failing one are never released.
C18_FirstFailureAborts ==
    caught # "" =>
        /\ hpc = "idle"
        /\ cmd # None
        /\ LET keys == cmd[1].keys
               n == Len(keys)
               k == Len(calls)
           IN  \/ /\ Event.status # NOTE_OFF
                  /\ k < n
                  /\ calls = SubSeq(Presses(keys), 1, k)
               \/ /\ Event.status = CONTROLLER_CHANGE
                  /\ k \in (n + 1)..(2 * n)
                  /\ calls = Presses(keys) \o <<Call("sleep", <<>>)>> \o
                             SubSeq(Releases(keys), 1, k - n - 1)
               \/ /\ Event.status = NOTE_OFF
                  /\ k < n
                  /\ calls = SubSeq(Releases(keys), 1, k)

\* the second of two keys failed in the press loop: the first stays pressed
C18_Witness ==
    /\ caught # "" /\ Event.status = CONTROLLER_CHANGE
    /\ Len(cmd[1].keys) = 2 /\ calls = <<Call("press", cmd[1].keys[1])>>

\* C19: a rule configured with the status noteoff is never returned by
\* lookup_command, whatever the message: neither for the message handled
\* nor as the result held by a cache entry
C19_NoteOffRuleNeverReturned ==
    /\ cmd # None => StatusOf(cmd[1]) # Some(NOTE_OFF)
    /\ \A i \in 1..Len(cache) :
           cache[i].val # None => StatusOf(cache[i].val[1]) # Some(NOTE_OFF)

\* a NoteOff message has been looked up without a result while a noteoff
\* rule names its channel and both its data bytes
C19_Witness ==
    /\ Handled /\ Event.status = NOTE_OFF /\ exc = "" /\ cmd = None
    /\ \E i \in 1..Len(Get(keystrokes, Some(NOTE_OFF))) :
          LET rule == Get(keystrokes, Some(NOTE_OFF))[i]
          IN  /\ Some(rule.channel[1]) = Event.channel
              /\ rule.data = ListData(<<Event.data1[1], Event.data2[1]>>)

\* the arguments lookup_command was called with for the message
RawKey(e) == <<e.status, e.channel, e.data1, e.data2>>

\* the same arguments with NoteOn and NoteOff exchanged
TwinKey(e) ==
    <<IF e.status = NOTE_ON THEN NOTE_OFF
      ELSE IF e.status = NOTE_OFF THEN NOTE_ON ELSE e.status,
      e.channel, e.data1, e.data2>>

\* C20 as stated: NoteOn and NoteOff lookups that differ in the status only
\* share one cache entry: they never hold two entries, and the NoteOff
\* lookup that finds the NoteOn lookup cached is a hit
C20_NoteOnOffShareEntry ==
    /\ \A i \in 1..Len(cache) : \A j \in 1..Len(cache) :
           ~ ( /\ cache[i].key[1] = NOTE_ON
               /\ cache[j].key = <<NOTE_OFF, cache[i].key[2], cache[i].key[3],
                                    cache[i].key[4]>> )
    /\ ( /\ Handled /\ Event.status = NOTE_OFF /\ exc = ""
         /\ \E i \in 1..Len(cache) : cache[i].key = TwinKey(Event) ) => hit

\* one step, as the amended C20 requires it: the lookup of a message is a
\* hit exactly when an entry of its own arguments, status included, is
\* cached; a miss without exception adds one entry, a hit none; and an entry
\* of the twin arguments holds the result the lookup gave
C20_Step ==
    delivered' = delivered + 1 =>
        LET e == decoded'[1]
        IN  /\ hit' = (\E i \in 1..Len(cache) : cache[i].key = RawKey(e))
            /\ exc' = "" =>
                  /\ cache'[Len(cache')].key = RawKey(e)
                  /\ Len(cache') = IF hit' THEN Len(cache) ELSE Len(cache) + 1
            /\ \A i \in 1..Len(cache') :
                  (exc' = "" /\ cache'[i].key = TwinKey(e)) => cache'[i].val = cmd'

\* C20 (amended): the cache is keyed on the arguments as passed, the status
\* before its rewriting: a NoteOn and a NoteOff lookup equal in channel,
\* data1 and data2 hold two entries, the second lookup is a miss, and both
\* entries hold the same result
C20_SeparateEntriesSameResult == [][C20_Step]_vars

\* the NoteOff lookup that followed the cached NoteOn lookup of the same
\* channel and data was a miss and the cache holds both entries, with a rule
C20_Witness ==
    /\ Handled /\ Event.status = NOTE_OFF /\ ~hit /\ cmd # None
    /\ \E i \in 1..Len(cache) : cache[i].key = TwinKey(Event)
    /\ cache[Len(cache)].key = RawKey(Event)

====
